---- MODULE Spec2Model ----
(***************************************************************************)
(* A model of the core of deduct, a Fitch-style proof checker:             *)
(*   - the rule registry of check::Checker (new, add_ruleset, del_ruleset) *)
(*   - parse::Proof::parse (line assembly and strict zones)                *)
(*   - check::Checker::check_proof and check::rules::Rule::validate        *)
(*   - the rule predicates (is_right) of check::rules                      *)
(*   - the text functions of parse: normalize_ops, Sentence::parse,        *)
(*     Citation::parse and LineNumber::parse, over sequences of characters *)
(* Proof rows carry their sentence and citation as the values              *)
(* Sentence::parse and Citation::parse return.                             *)
(***************************************************************************)
EXTENDS Integers, Sequences, FiniteSets, TLC

VARIABLES
    rules,      \* Checker.rules: rule identifier -> rule object
    lastCall,   \* per ruleset, the most recent registry call: "none", "add", "del",
                \* or "re-add" (an add_ruleset after a del_ruleset)
    rows,       \* the (depth, sentence, citation) rows the driver holds
    proof,      \* what Proof::parse returned for rows
    result,     \* what check_proof returned for proof ("None": not called since)
    text,       \* the characters of the input field being edited
    parsed      \* what the parser called on text returned ("None": not called since)

vars == <<rules, lastCall, rows, proof, result, text, parsed>>

(***************************************************************************)
(* Bounds of the model.                                                    *)
(***************************************************************************)
\* Longest proof of the structural specifications.
MaxLines == 3
\* Longest proof of the modal specification.
MaxModalLines == 4
\* Deepest subproof depth a row may carry.
MaxDepth == 2
\* Longest proof of the nested-subproof specification.
MaxNestLines == 6
\* Longest content of an operator input field.
MaxText == 4
\* Longest sentence string handed to Sentence::parse.
MaxSentence == 4
\* Longest citation string handed to Citation::parse.
MaxCitation == 9
\* Longest citation string whose rule token may be missing.
MaxRuleText == 4
\* Most lines of a proof whose lines fail several checks at once.
MaxOrderLines == 3
\* Most lines of a proof citing subproofs at any depth.
MaxRangeLines == 4
\* Most lines of a proof reiterating with R4.
MaxReiterLines == 4

(***************************************************************************)
(* parse::consts. Each canonical operator symbol is one character of the   *)
(* source; it is named here by an ASCII token of several letters, distinct *)
(* from every single typed character ("[]" is the necessity symbol, "["    *)
(* and "]" are brackets). The rule identifiers below are written with the  *)
(* aliases ^ v -> <-> ~ [] <>.                                             *)
(***************************************************************************)
NEG == "not"
CON == "and"
DIS == "or"
BIC == "<->"
IMP == "->"
BOT == "_|_"
NEC == "[]"
POS == "<>"

(***************************************************************************)
(* parse::sentence::Sentence: a tagged tree, compared structurally.        *)
(***************************************************************************)
Atomic(c) == <<"Atomic", c>>
Signal(c) == <<"Signal", c>>
Neg(x) == <<"Neg", x>>
Nec(x) == <<"Nec", x>>
Pos(x) == <<"Pos", x>>
Con(l, r) == <<"Con", l, r>>
Dis(l, r) == <<"Dis", l, r>>
Imp(l, r) == <<"Imp", l, r>>
Bic(l, r) == <<"Bic", l, r>>

\* `let Sentence::V(..) = s` : the variant test of a pattern match.
Is(s, variant) == s[1] = variant

negated(s) == Neg(s)

is_nec_signal(s) == s = Signal(NEC)
is_bot_signal(s) == s = Signal(BOT)

(***************************************************************************)
(* parse::citation::LineNumber, LineNumberType, Citation                   *)
(***************************************************************************)
One(n) == <<"One", n>>
Many(s, e) == <<"Many", s, e>>

as_one(ln) == ln[2]
range_start(ln) == ln[2]
range_end(ln) == ln[3]

\* impl PartialEq<LineNumber> for LineNumberType
LineNumberTypeEq(t, ln) == t = ln[1]

Citation(r, l) == [r |-> r, l |-> l]

(***************************************************************************)
(* parse::Line, parse::Proof                                               *)
(***************************************************************************)
Line(s, c, n, d) == [s |-> s, c |-> c, n |-> n, d |-> d]

cited_lines(line) == line.c.l

\* An is_premise that recognises no line.
is_premise_never(line) == FALSE

is_premise(line) == line.c.r = "PR"

Proof_len(p) == Len(p.lines)

\* Proof::line(n): the source indexes lines[n - 1]; callers unwrap it.
Proof_line(p, n) == p.lines[n]

cited_sentence(line, p, n) == Proof_line(p, as_one(cited_lines(line)[n + 1])).s

cited_subproof(line, p, n) ==
    LET range == cited_lines(line)[n + 1]
    IN  <<Proof_line(p, range_start(range)).s, Proof_line(p, range_end(range)).s>>

saturating_sub(a, b) == IF a >= b THEN a - b ELSE 0

\* Result<T, ParseError>, as Sentence::parse and Citation::parse return it.
Ok(v) == [tag |-> "Ok", v |-> v]
Err(e) == [tag |-> "Err", v |-> e]

\* Proof::parse, first loop: one row (depth, Sentence::parse result,
\* Citation::parse result) at position i, added to the lines or to the errors.
RECURSIVE ParseRows(_, _, _, _)
ParseRows(input, i, lines, error) ==
    IF i > Len(input) THEN [lines |-> lines, error |-> error]
    ELSE
        LET depth == input[i][1]
            s == input[i][2]
            c == input[i][3]
        IN  IF s.tag = "Ok" /\ c.tag = "Ok"
            THEN IF is_nec_signal(s.v) /\ c.v.r # "PR"
                 THEN ParseRows(input, i + 1, lines,
                                Append(error, <<i, "BadNecessity">>))
                 ELSE ParseRows(input, i + 1,
                                Append(lines, Line(s.v, c.v, i, depth)), error)
            ELSE ParseRows(input, i + 1, lines,
                           error
                             \o (IF s.tag = "Err" THEN <<<<i, s.v>>>> ELSE <<>>)
                             \o (IF c.tag = "Err" THEN <<<<i, c.v>>>> ELSE <<>>))

\* Proof::parse, second loop: the strict zone bit of every line.
RECURSIVE StrictZones(_, _, _, _, _)
StrictZones(lines, n, depth, nest, zones) ==
    IF n > Len(lines) THEN zones
    ELSE
        LET line == lines[n]
            nest1 == IF is_nec_signal(line.s) THEN nest + 1
                     ELSE IF line.d < depth THEN saturating_sub(nest, 1)
                     ELSE nest
        IN  StrictZones(lines, n + 1, line.d, nest1, Append(zones, nest1 > 0))

\* A Proof::parse that returns the lines it built whatever errors it met.
Proof_parse_lenient(input) ==
    LET r == ParseRows(input, 1, <<>>, <<>>)
    IN  [tag |-> "Ok", lines |-> r.lines,
         strict_zones |-> StrictZones(r.lines, 1, 0, 0, <<>>),
         error |-> <<>>]

Proof_parse(input) ==
    LET r == ParseRows(input, 1, <<>>, <<>>)
    IN  IF r.error # <<>>
        THEN [tag |-> "Err", lines |-> <<>>, strict_zones |-> <<>>, error |-> r.error]
        ELSE [tag |-> "Ok", lines |-> r.lines,
              strict_zones |-> StrictZones(r.lines, 1, 0, 0, <<>>),
              error |-> <<>>]

(***************************************************************************)
(* parse::normalize_ops, over sequences of characters.                     *)
(***************************************************************************)
\* The first alternative of `alts` that matches s at position i, or <<>>.
RECURSIVE MatchAt(_, _, _, _)
MatchAt(s, i, alts, a) ==
    IF a > Len(alts) THEN <<>>
    ELSE IF i + Len(alts[a]) - 1 <= Len(s)
            /\ SubSeq(s, i, i + Len(alts[a]) - 1) = alts[a]
         THEN alts[a]
         ELSE MatchAt(s, i, alts, a + 1)

\* Regex::replace_all for an alternation of literals: leftmost matches,
\* not overlapping, each replaced by `norm`.
RECURSIVE replace_all(_, _, _, _, _)
replace_all(s, i, alts, norm, out) ==
    IF i > Len(s) THEN out
    ELSE LET m == MatchAt(s, i, alts, 1)
         IN  IF m # <<>>
             THEN replace_all(s, i + Len(m), alts, norm, out \o norm)
             ELSE replace_all(s, i + 1, alts, norm, Append(out, s[i]))

\* The (regex, norm) pairs of normalize_ops, in the order they are applied.
BIC_REGEX == <<<< <<"U+2261">>, <<"<", "-", ">">> >>, BIC>>
IMP_REGEX == <<<< <<"U+21D2">>, <<"U+2283">>, <<"-", ">">> >>, IMP>>
CON_REGEX == <<<< <<"^">>, <<"&">>, <<".">>, <<"U+00B7">>, <<"*">> >>, CON>>
DIS_REGEX == <<<< <<"v">> >>, DIS>>
NEG_REGEX == <<<< <<"~">>, <<"U+223C">>, <<"-">>, <<"U+2212">> >>, NEG>>
BOT_REGEX == <<<< <<"X", "X">>, <<"#">> >>, BOT>>
NEC_REGEX == <<<< <<"[", "]">> >>, NEC>>
POS_REGEX == <<<< <<"<", ">">> >>, POS>>

RECURSIVE ApplyPairs(_, _, _)
ApplyPairs(out, pairs, k) ==
    IF k > Len(pairs) THEN out
    ELSE ApplyPairs(replace_all(out, 1, pairs[k][1], <<pairs[k][2]>>, <<>>),
                    pairs, k + 1)

\* A normalize_ops that rewrites the conditional aliases first.
normalize_ops_imp_first(i) ==
    ApplyPairs(i, <<IMP_REGEX, BIC_REGEX, CON_REGEX, DIS_REGEX, NEG_REGEX,
                    BOT_REGEX, NEC_REGEX, POS_REGEX>>, 1)

normalize_ops(i) ==
    ApplyPairs(i, <<BIC_REGEX, IMP_REGEX, CON_REGEX, DIS_REGEX, NEG_REGEX,
                    BOT_REGEX, NEC_REGEX, POS_REGEX>>, 1)

(***************************************************************************)
(* parse::sentence::Sentence::parse, over sequences of characters.         *)
(***************************************************************************)
\* The capital letters of the model, whitespace, and the characters
\* invalid_chars lets through.
Letters == {"A", "B"}
Whitespace == {" "}
ValidChars ==
    Letters \cup {NEG, DIS, CON, BIC, IMP, BOT, NEC, POS} \cup Whitespace
        \cup {")", "(", "]", "[", "}", "{"}

\* str::trim
RECURSIVE trim(_)
trim(s) ==
    IF s = <<>> THEN s
    ELSE IF Head(s) \in Whitespace THEN trim(Tail(s))
    ELSE IF s[Len(s)] \in Whitespace THEN trim(SubSeq(s, 1, Len(s) - 1))
    ELSE s

\* A normalize_braces that leaves brackets and braces alone.
normalize_braces_parens_only(i) == i

normalize_braces(i) ==
    LET BRO_REGEX == <<<< <<"[">>, <<"{">> >>, "(">>
        BRC_REGEX == <<<< <<"]">>, <<"}">> >>, ")">>
    IN  ApplyPairs(i, <<BRO_REGEX, BRC_REGEX>>, 1)

\* invalid_chars: TRUE when it returns Err(InvalidCharacter(..)).
invalid_chars(i) == \E n \in 1..Len(i) : i[n] \notin ValidChars

\* compute_depths, the loop: the depth after each character.
RECURSIVE DepthScan(_, _, _, _)
DepthScan(i, n, c_depth, v_depth) ==
    IF n > Len(i) THEN [c_depth |-> c_depth, v_depth |-> v_depth]
    ELSE LET c == IF i[n] = "(" THEN c_depth + 1
                  ELSE IF i[n] = ")" THEN saturating_sub(c_depth, 1)
                  ELSE c_depth
         IN  DepthScan(i, n + 1, c, Append(v_depth, c))

compute_depths(i) ==
    LET r == DepthScan(i, 1, 0, <<>>)
    IN  IF r.c_depth # 0 THEN Err("UnbalancedParentheses") ELSE Ok(r.v_depth)

is_una_op(c) == c \in {NEG, BOT, NEC, POS}

is_bin_op(c) == c \in {CON, DIS, BIC, IMP}

\* Sentence::parse, the main operator loop: the operator found so far is
\* m at position p (p = 0: none); the result is Ambiguous or (m, p).
RECURSIVE MainOp(_, _, _, _, _)
MainOp(i, d, n, m, p) ==
    IF n > Len(i) THEN Ok(<<m, p>>)
    ELSE IF (is_una_op(i[n]) \/ is_bin_op(i[n])) /\ d[n] = 0
         THEN IF p = 0 THEN MainOp(i, d, n + 1, i[n], n)
              ELSE IF is_bin_op(m) /\ is_bin_op(i[n]) THEN Err("Ambiguous")
              ELSE IF is_una_op(m) /\ is_bin_op(i[n]) THEN MainOp(i, d, n + 1, i[n], n)
              ELSE MainOp(i, d, n + 1, m, p)
         ELSE MainOp(i, d, n + 1, m, p)

RECURSIVE Sentence_parse(_)
Sentence_parse(input) ==
    IF trim(input) = <<>> THEN Err("EmptySentence")
    ELSE
    LET i == normalize_braces(normalize_ops(trim(input)))
        d == compute_depths(i)
    IN  IF d.tag = "Err" THEN d
        ELSE IF d.v[1] = 1 /\ \A n \in 2..(Len(i) - 1) : d.v[n] > 0
        THEN Sentence_parse(SubSeq(i, 2, Len(i) - 1))
        ELSE IF invalid_chars(i) THEN Err("InvalidCharacter")
        ELSE IF Len(i) = 1 /\ i[1] \in {BOT, NEC} THEN Ok(Signal(i[1]))
        ELSE IF \E n \in 1..Len(i) : i[n] = BOT THEN Err("BadContradiction")
        ELSE IF Len(i) = 1 /\ i[1] \in Letters THEN Ok(Atomic(i[1]))
        ELSE
        LET main == MainOp(i, d.v, 1, "", 0)
        IN  IF main.tag = "Err" THEN main
            ELSE IF main.v[2] = 0 THEN Err("MissingOp")
            ELSE
            LET main_op_c == main.v[1]
                main_op_p == main.v[2]
            IN  IF main_op_c \in {NEG, NEC, POS}
                THEN IF main_op_p # 1 THEN Err("BadUnary")
                     ELSE LET rest == Sentence_parse(Tail(i))
                          IN  IF rest.tag = "Err" THEN rest
                              ELSE IF main_op_c = NEG THEN Ok(Neg(rest.v))
                              ELSE IF main_op_c = NEC THEN Ok(Nec(rest.v))
                              ELSE Ok(Pos(rest.v))
                ELSE LET l == Sentence_parse(SubSeq(i, 1, main_op_p - 1))
                         r == Sentence_parse(SubSeq(i, main_op_p + 1, Len(i)))
                     IN  IF l.tag = "Err" THEN l
                         ELSE IF r.tag = "Err" THEN r
                         ELSE IF main_op_c = CON THEN Ok(Con(l.v, r.v))
                         ELSE IF main_op_c = DIS THEN Ok(Dis(l.v, r.v))
                         ELSE IF main_op_c = IMP THEN Ok(Imp(l.v, r.v))
                         ELSE Ok(Bic(l.v, r.v))

(***************************************************************************)
(* check::rulesets: the six rulesets, as (identifier, rule object) pairs.  *)
(***************************************************************************)
TFL_BASIC == <<
    <<"R", "Reiteration">>,
    <<"^I", "ConjunctionIntr">>,
    <<"^E", "ConjunctionElim">>,
    <<"vI", "DisjunctionIntr">>,
    <<"vE", "DisjunctionElim">>,
    <<"->I", "ConditionalIntr">>,
    <<"->E", "ConditionalElim">>,
    <<"<->I", "BiconditionalIntr">>,
    <<"<->E", "BiconditionalElim">>,
    <<"~I", "NegationIntr">>,
    <<"~E", "NegationElim">>,
    <<"IP", "IndirectProof">>,
    <<"X", "Explosion">> >>

TFL_DERIVED == <<
    <<"DS", "DisjunctiveSyllogism">>,
    <<"MT", "ModusTollens">>,
    <<"DNE", "Dne">>,
    <<"LEM", "Lem">>,
    <<"DeM", "DeMorgan">>,
    <<"DEM", "DeMorgan">> >>

SYSTEM_K == <<
    <<"[]I", "NecessityIntr">>,
    <<"[]E", "NecessityElim">>,
    <<"Def<>", "PossibilityDef">>,
    <<"MC", "ModalConversion">> >>

SYSTEM_T == << <<"RT", "RT">> >>

SYSTEM_S4 == << <<"R4", "R4">> >>

SYSTEM_S5 == << <<"R5", "R5">> >>

ALL_RULESETS == <<TFL_BASIC, TFL_DERIVED, SYSTEM_K, SYSTEM_T, SYSTEM_S4, SYSTEM_S5>>

(***************************************************************************)
(* check::Checker: the registry.                                           *)
(***************************************************************************)
\* HashMap::insert and HashMap::remove
insert(m, id, rule) == [k \in DOMAIN m \cup {id} |-> IF k = id THEN rule ELSE m[k]]
\* A remove that leaves the map as it is.
remove_nothing(m, id) == m

remove(m, id) == [k \in DOMAIN m \ {id} |-> m[k]]

Checker_new == [id \in {"PR", "?"} |-> "Premise"]

RECURSIVE InsertAll(_, _, _)
InsertAll(m, ruleset, i) ==
    IF i > Len(ruleset) THEN m
    ELSE InsertAll(insert(m, ruleset[i][1], ruleset[i][2]), ruleset, i + 1)

RECURSIVE RemoveAll(_, _, _)
RemoveAll(m, ruleset, i) ==
    IF i > Len(ruleset) THEN m
    ELSE RemoveAll(remove(m, ruleset[i][1]), ruleset, i + 1)

add_ruleset(m, ruleset) == InsertAll(m, ruleset, 1)

del_ruleset(m, ruleset) == RemoveAll(m, ruleset, 1)

(***************************************************************************)
(* check::rules: what each rule object declares.                           *)
(***************************************************************************)
line_ord(rule) ==
    CASE rule = "Premise" -> <<>>
      [] rule \in {"Reiteration", "ConjunctionElim", "DisjunctionIntr", "Explosion",
                   "Dne", "DeMorgan", "NecessityElim", "PossibilityDef",
                   "ModalConversion", "RT", "R4", "R5"} -> <<"One">>
      [] rule \in {"ConjunctionIntr", "ConditionalElim", "BiconditionalElim",
                   "NegationElim", "DisjunctiveSyllogism", "ModusTollens"}
            -> <<"One", "One">>
      [] rule = "DisjunctionElim" -> <<"One", "Many", "Many">>
      [] rule \in {"ConditionalIntr", "NegationIntr", "IndirectProof",
                   "NecessityIntr"} -> <<"Many">>
      [] rule \in {"BiconditionalIntr", "Lem"} -> <<"Many", "Many">>

\* A strict_only that R4 does not override.
strict_only_without_r4(rule) == rule \in {"NecessityElim", "R5"}

strict_only(rule) == rule \in {"NecessityElim", "R4", "R5"}

\* check_strict_nesting: TRUE for Ok(()), FALSE for Err(BadUsage).
RECURSIVE NestingScan(_, _, _, _, _)
NestingScan(p, n, e, depth, nest) ==
    IF n >= e THEN nest
    ELSE
        LET line == Proof_line(p, n)
            nest1 == IF is_nec_signal(line.s) THEN nest + 1
                     ELSE IF line.d < depth THEN saturating_sub(nest, 1)
                     ELSE nest
        IN  NestingScan(p, n + 1, e, line.d, nest1)

\* A nesting check that tolerates two nested strict subproofs.
check_strict_nesting_two(p, s, e) == ~(NestingScan(p, s, e, 0, 0) > 2)

check_strict_nesting(p, s, e) == ~(NestingScan(p, s, e, 0, 0) > 1)

(***************************************************************************)
(* check::rules: the rule predicates. Each is TRUE where the source        *)
(* returns Ok(()) and FALSE where it returns Err(BadUsage).                *)
(***************************************************************************)
Premise_is_right(p, l) == TRUE

Reiteration_is_right(p, l) ==
    LET source == cited_sentence(l, p, 0)
    IN  ~(source # l.s)

ConjunctionIntr_is_right(p, l) ==
    LET s_a == cited_sentence(l, p, 0)
        s_b == cited_sentence(l, p, 1)
    IN  /\ Is(l.s, "Con")
        /\ (l.s[2] = s_a \/ l.s[2] = s_b)
        /\ (l.s[3] = s_a \/ l.s[3] = s_b)

ConjunctionElim_is_right(p, l) ==
    LET source == cited_sentence(l, p, 0)
    IN  /\ Is(source, "Con")
        /\ (source[2] = l.s \/ source[3] = l.s)

DisjunctionIntr_is_right(p, l) ==
    LET source == cited_sentence(l, p, 0)
    IN  /\ Is(l.s, "Dis")
        /\ (l.s[2] = source \/ l.s[3] = source)

DisjunctionElim_is_right(p, l) ==
    LET source == cited_sentence(l, p, 0)
        sp_1 == cited_subproof(l, p, 1)
        sp_2 == cited_subproof(l, p, 2)
        p_1 == sp_1[1]
        c_1 == sp_1[2]
        p_2 == sp_2[1]
        c_2 == sp_2[2]
    IN  /\ Is(source, "Dis")
        /\ ~(c_1 # l.s \/ c_2 # l.s)
        /\ \/ (p_1 = source[2] /\ p_2 = source[3])
           \/ (p_1 = source[3] /\ p_2 = source[2])

ConditionalIntr_is_right(p, l) ==
    LET sp == cited_subproof(l, p, 0)
    IN  /\ Is(l.s, "Imp")
        /\ l.s[2] = sp[1]
        /\ l.s[3] = sp[2]

ConditionalElim_is_right(p, l) ==
    LET s_1 == cited_sentence(l, p, 0)
        s_2 == cited_sentence(l, p, 1)
    IN  \/ (Is(s_1, "Imp") /\ s_1[2] = s_2 /\ s_1[3] = l.s)
        \/ (Is(s_2, "Imp") /\ s_2[2] = s_1 /\ s_2[3] = l.s)

BiconditionalIntr_is_right(p, l) ==
    LET sp_1 == cited_subproof(l, p, 0)
        sp_2 == cited_subproof(l, p, 1)
        p_1 == sp_1[1]
        c_1 == sp_1[2]
        p_2 == sp_2[1]
        c_2 == sp_2[2]
    IN  /\ Is(l.s, "Bic")
        /\ \/ ((l.s[2] = p_1 /\ l.s[3] = p_2) /\ (l.s[2] = c_2 /\ l.s[3] = c_1))
           \/ ((l.s[2] = p_2 /\ l.s[3] = p_1) /\ (l.s[2] = c_1 /\ l.s[3] = c_2))

BiconditionalElim_is_right(p, l) ==
    LET s_1 == cited_sentence(l, p, 0)
        s_2 == cited_sentence(l, p, 1)
    IN  /\ Is(s_1, "Bic")
        /\ \/ (s_1[2] = s_2 /\ s_1[3] = l.s)
           \/ (s_1[3] = s_2 /\ s_1[2] = l.s)

NegationIntr_is_right(p, l) ==
    LET sp == cited_subproof(l, p, 0)
    IN  /\ is_bot_signal(sp[2])
        /\ Is(l.s, "Neg")
        /\ l.s[2] = sp[1]

NegationElim_is_right(p, l) ==
    LET s_1 == cited_sentence(l, p, 0)
        s_2 == cited_sentence(l, p, 1)
    IN  IF ~is_bot_signal(l.s) THEN FALSE
        ELSE IF Is(s_1, "Neg") THEN s_1[2] = s_2
        ELSE IF Is(s_2, "Neg") THEN s_2[2] = s_1
        ELSE FALSE

Explosion_is_right(p, l) ==
    LET source == cited_sentence(l, p, 0)
    IN  is_bot_signal(source)

IndirectProof_is_right(p, l) ==
    LET sp == cited_subproof(l, p, 0)
    IN  /\ Is(sp[1], "Neg")
        /\ is_bot_signal(sp[2])
        /\ ~(sp[1][2] # l.s)

DisjunctiveSyllogism_is_right(p, l) ==
    LET s_1 == cited_sentence(l, p, 0)
        s_2 == cited_sentence(l, p, 1)
    IN  IF Is(s_1, "Dis") /\ ~Is(s_2, "Neg") THEN FALSE
        ELSE IF /\ Is(s_1, "Dis")
                /\ \/ (s_2[2] = s_1[2] /\ l.s = s_1[3])
                   \/ (s_2[2] = s_1[3] /\ l.s = s_1[2])
             THEN TRUE
        ELSE IF Is(s_2, "Dis")
             THEN /\ Is(s_1, "Neg")
                  /\ \/ (s_1[2] = s_2[2] /\ l.s = s_2[3])
                     \/ (s_1[2] = s_2[3] /\ l.s = s_2[2])
        ELSE FALSE

ModusTollens_is_right(p, l) ==
    LET s_1 == cited_sentence(l, p, 0)
        s_2 == cited_sentence(l, p, 1)
    IN  IF ~Is(l.s, "Neg") THEN FALSE
        ELSE IF Is(s_1, "Imp") /\ ~Is(s_2, "Neg") THEN FALSE
        ELSE IF Is(s_1, "Imp") /\ l.s[2] = s_1[2] /\ s_2[2] = s_1[3] THEN TRUE
        ELSE IF Is(s_2, "Imp")
             THEN /\ Is(s_1, "Neg")
                  /\ l.s[2] = s_2[2]
                  /\ s_1[2] = s_2[3]
        ELSE FALSE

Dne_is_right(p, l) ==
    LET s == cited_sentence(l, p, 0)
    IN  /\ Is(s, "Neg")
        /\ Is(s[2], "Neg")
        /\ s[2][2] = l.s

Lem_is_right(p, l) ==
    LET sp_1 == cited_subproof(l, p, 0)
        sp_2 == cited_subproof(l, p, 1)
        p_1 == sp_1[1]
        c_1 == sp_1[2]
        p_2 == sp_2[1]
        c_2 == sp_2[2]
    IN  /\ ~(c_1 # c_2)
        /\ ~((negated(p_1) # p_2) /\ (negated(p_2) # p_1))
        /\ ~(l.s # c_1)

DeMorgan_is_right(p, l) ==
    LET s == cited_sentence(l, p, 0)
    IN  CASE Is(s, "Neg") ->
                CASE Is(s[2], "Con") ->
                        l.s = Dis(negated(s[2][2]), negated(s[2][3]))
                  [] Is(s[2], "Dis") ->
                        l.s = Con(negated(s[2][2]), negated(s[2][3]))
                  [] OTHER -> FALSE
          [] Is(s, "Con") ->
                /\ Is(s[2], "Neg") /\ Is(s[3], "Neg")
                /\ l.s = negated(Dis(s[2][2], s[3][2]))
          [] Is(s, "Dis") ->
                /\ Is(s[2], "Neg") /\ Is(s[3], "Neg")
                /\ l.s = negated(Con(s[2][2], s[3][2]))
          [] OTHER -> FALSE

NecessityIntr_is_right(p, l) ==
    LET sp == cited_subproof(l, p, 0)
    IN  /\ is_nec_signal(sp[1])
        /\ Is(l.s, "Nec")
        /\ l.s[2] = sp[2]

\* A []E that does not compare the line with what the cited line boxes.
NecessityElim_is_right_any(p, l) ==
    LET n == as_one(cited_lines(l)[1])
        s == cited_sentence(l, p, 0)
    IN  /\ Is(s, "Nec")
        /\ check_strict_nesting(p, n, l.n)

NecessityElim_is_right(p, l) ==
    LET n == as_one(cited_lines(l)[1])
        s == cited_sentence(l, p, 0)
    IN  /\ Is(s, "Nec")
        /\ check_strict_nesting(p, n, l.n)
        /\ s[2] = l.s

PossibilityDef_is_right(p, l) ==
    LET s == cited_sentence(l, p, 0)
    IN  CASE Is(s, "Pos") ->
                /\ Is(l.s, "Neg")
                /\ Is(l.s[2], "Nec")
                /\ Is(l.s[2][2], "Neg")
                /\ s[2] = l.s[2][2][2]
          [] Is(s, "Neg") ->
                /\ Is(s[2], "Nec")
                /\ Is(s[2][2], "Neg")
                /\ Is(l.s, "Pos")
                /\ s[2][2][2] = l.s[2]
          [] OTHER -> FALSE

ModalConversion_is_right(p, l) ==
    LET s == cited_sentence(l, p, 0)
    IN  CASE Is(s, "Neg") ->
                CASE Is(s[2], "Nec") ->
                        /\ Is(l.s, "Pos")
                        /\ Is(l.s[2], "Neg")
                        /\ s[2][2] = l.s[2][2]
                  [] Is(s[2], "Pos") ->
                        /\ Is(l.s, "Nec")
                        /\ Is(l.s[2], "Neg")
                        /\ s[2][2] = l.s[2][2]
                  [] OTHER -> FALSE
          [] Is(s, "Pos") ->
                /\ Is(s[2], "Neg")
                /\ Is(l.s, "Neg")
                /\ Is(l.s[2], "Nec")
                /\ s[2][2] = l.s[2][2]
          [] Is(s, "Nec") ->
                /\ Is(s[2], "Neg")
                /\ Is(l.s, "Neg")
                /\ Is(l.s[2], "Pos")
                /\ s[2][2] = l.s[2][2]
          [] OTHER -> FALSE

RT_is_right(p, l) ==
    LET s == cited_sentence(l, p, 0)
    IN  /\ Is(s, "Nec")
        /\ s[2] = l.s

\* An R4 that reiterates necessities only.
R4_is_right_nec_only(p, l) ==
    LET n == as_one(cited_lines(l)[1])
        s == cited_sentence(l, p, 0)
    IN  /\ Is(s, "Nec")
        /\ check_strict_nesting(p, n, l.n)
        /\ s = l.s

R4_is_right(p, l) ==
    LET n == as_one(cited_lines(l)[1])
        s == cited_sentence(l, p, 0)
    IN  /\ check_strict_nesting(p, n, l.n)
        /\ s = l.s

R5_is_right(p, l) ==
    LET n == as_one(cited_lines(l)[1])
        s == cited_sentence(l, p, 0)
    IN  /\ Is(s, "Neg")
        /\ Is(s[2], "Nec")
        /\ check_strict_nesting(p, n, l.n)
        /\ s = l.s

\* The dynamic dispatch `self.is_right(p, line)`.
is_right(rule, p, l) ==
    LET ok ==
        CASE rule = "Premise" -> Premise_is_right(p, l)
          [] rule = "Reiteration" -> Reiteration_is_right(p, l)
          [] rule = "ConjunctionIntr" -> ConjunctionIntr_is_right(p, l)
          [] rule = "ConjunctionElim" -> ConjunctionElim_is_right(p, l)
          [] rule = "DisjunctionIntr" -> DisjunctionIntr_is_right(p, l)
          [] rule = "DisjunctionElim" -> DisjunctionElim_is_right(p, l)
          [] rule = "ConditionalIntr" -> ConditionalIntr_is_right(p, l)
          [] rule = "ConditionalElim" -> ConditionalElim_is_right(p, l)
          [] rule = "BiconditionalIntr" -> BiconditionalIntr_is_right(p, l)
          [] rule = "BiconditionalElim" -> BiconditionalElim_is_right(p, l)
          [] rule = "NegationIntr" -> NegationIntr_is_right(p, l)
          [] rule = "NegationElim" -> NegationElim_is_right(p, l)
          [] rule = "IndirectProof" -> IndirectProof_is_right(p, l)
          [] rule = "Explosion" -> Explosion_is_right(p, l)
          [] rule = "DisjunctiveSyllogism" -> DisjunctiveSyllogism_is_right(p, l)
          [] rule = "ModusTollens" -> ModusTollens_is_right(p, l)
          [] rule = "Dne" -> Dne_is_right(p, l)
          [] rule = "Lem" -> Lem_is_right(p, l)
          [] rule = "DeMorgan" -> DeMorgan_is_right(p, l)
          [] rule = "NecessityIntr" -> NecessityIntr_is_right(p, l)
          [] rule = "NecessityElim" -> NecessityElim_is_right(p, l)
          [] rule = "PossibilityDef" -> PossibilityDef_is_right(p, l)
          [] rule = "ModalConversion" -> ModalConversion_is_right(p, l)
          [] rule = "RT" -> RT_is_right(p, l)
          [] rule = "R4" -> R4_is_right(p, l)
          [] rule = "R5" -> R5_is_right(p, l)
    IN  IF ok THEN "Ok" ELSE "BadUsage"

(***************************************************************************)
(* check::rules::Rule::validate                                            *)
(***************************************************************************)
\* The zip of line_ord() with the cited lines: some position differs.
KindMismatch(rule, line) ==
    \E i \in 1..Len(line_ord(rule)) :
        /\ i <= Len(cited_lines(line))
        /\ ~LineNumberTypeEq(line_ord(rule)[i], cited_lines(line)[i])

\* The closure of the bounds scan, for one cited line number.
\* A bounds check that lets a line cite itself.
OutOfBounds_inclusive(line, ln) ==
    IF Is(ln, "One")
    THEN as_one(ln) > line.n \/ as_one(ln) < 1
    ELSE range_start(ln) < 1 \/ range_end(ln) < 2 \/ range_end(ln) >= line.n

\* A bounds check without the lower limits.
OutOfBounds_no_lower(line, ln) ==
    IF Is(ln, "One")
    THEN as_one(ln) >= line.n
    ELSE range_end(ln) >= line.n

OutOfBounds(line, ln) ==
    IF Is(ln, "One")
    THEN as_one(ln) >= line.n \/ as_one(ln) < 1
    ELSE range_start(ln) < 1 \/ range_end(ln) < 2 \/ range_end(ln) >= line.n

\* The closure of the subproof scan, for one cited range.
BadSubproof(p, line, r) ==
    LET s == range_start(r)
        e == range_end(r)
        sd == Proof_line(p, s).d
        ed == Proof_line(p, e).d
    IN  IF (sd < 1 \/ ed < 1) \/ (sd # ed) \/ (sd >= line.n) THEN TRUE
        ELSE IF \E n \in s..e : Proof_line(p, n).d < sd THEN TRUE
        ELSE LET next == Proof_line(p, e + 1)
             IN  next.d >= ed /\ ~is_premise(next)

\* Single sentence accessibility: the backward scan from line.n - 1 to 1.
RECURSIVE SentenceScan(_, _, _, _)
SentenceScan(p, n, ceil, access) ==
    IF n < 1 THEN access
    ELSE
        LET d == Proof_line(p, n).d
        IN  IF d = ceil
            THEN SentenceScan(p, n - 1, ceil, [access EXCEPT ![n] = TRUE])
            ELSE IF d < ceil
            THEN SentenceScan(p, n - 1, ceil - 1, [access EXCEPT ![n] = TRUE])
            ELSE SentenceScan(p, n - 1, ceil, access)

\* A sentence scan that starts at the last line of the proof.
sentence_access_from_end(p, line) ==
    SentenceScan(p, Proof_len(p), line.d, [i \in 1..Proof_len(p) |-> FALSE])

sentence_access(p, line) ==
    SentenceScan(p, line.n - 1, line.d, [i \in 1..Proof_len(p) |-> FALSE])

\* Subproof accessibility: the second backward scan.
RECURSIVE SubproofScan(_, _, _, _)
SubproofScan(p, n, ceil, access) ==
    IF n < 1 THEN access
    ELSE
        LET l == Proof_line(p, n)
        IN  IF l.d = (ceil + 1) /\ is_premise(l)
            THEN SubproofScan(p, n - 1, ceil, [access EXCEPT ![n] = TRUE])
            ELSE IF l.d < ceil
            THEN SubproofScan(p, n - 1, ceil - 1, access)
            ELSE SubproofScan(p, n - 1, ceil, access)

subproof_access(p, line) ==
    SubproofScan(p, line.n - 1, line.d, [i \in 1..Proof_len(p) |-> FALSE])

\* The closure of the availability scan, for one cited line number.
NotAvailable(p, line, ln) ==
    IF Is(ln, "One")
    THEN ~sentence_access(p, line)[as_one(ln)]
    ELSE ~subproof_access(p, line)[range_start(ln)]

\* The two strictness conditions.
StrictOutsideZone(rule, p, line) ==
    strict_only(rule) /\ ~p.strict_zones[line.n]

\* A relaxed-rule check that fires on premises instead of derived lines.
RelaxedInsideZone_premises(rule, p, line) ==
    ~strict_only(rule) /\ is_premise(line) /\ p.strict_zones[line.n]

RelaxedInsideZone(rule, p, line) ==
    ~strict_only(rule) /\ ~is_premise(line) /\ p.strict_zones[line.n]

\* A validate that checks the citation bounds before the arity and the kinds.
validate_bounds_first(rule, p, line) ==
    LET cited == cited_lines(line)
    IN  IF \E i \in 1..Len(cited) : OutOfBounds(line, cited[i]) THEN "BadLine"
        ELSE IF Len(line_ord(rule)) # Len(cited) THEN "BadLineCount"
        ELSE IF KindMismatch(rule, line) THEN "BadLineType"
        ELSE IF \E i \in 1..Len(cited) :
                    Is(cited[i], "Many") /\ BadSubproof(p, line, cited[i])
             THEN "BadRange"
        ELSE IF \E i \in 1..Len(cited) : NotAvailable(p, line, cited[i])
             THEN "Unavailable"
        ELSE IF StrictOutsideZone(rule, p, line) THEN "StrictOutside"
        ELSE IF RelaxedInsideZone(rule, p, line) THEN "RelaxedInside"
        ELSE is_right(rule, p, line)

\* "Ok" for Ok(()), the name of the CheckError otherwise.
validate(rule, p, line) ==
    LET cited == cited_lines(line)
    IN  IF Len(line_ord(rule)) # Len(cited) THEN "BadLineCount"
        ELSE IF KindMismatch(rule, line) THEN "BadLineType"
        ELSE IF \E i \in 1..Len(cited) : OutOfBounds(line, cited[i]) THEN "BadLine"
        ELSE IF \E i \in 1..Len(cited) :
                    Is(cited[i], "Many") /\ BadSubproof(p, line, cited[i])
             THEN "BadRange"
        ELSE IF \E i \in 1..Len(cited) : NotAvailable(p, line, cited[i])
             THEN "Unavailable"
        ELSE IF StrictOutsideZone(rule, p, line) THEN "StrictOutside"
        ELSE IF RelaxedInsideZone(rule, p, line) THEN "RelaxedInside"
        ELSE is_right(rule, p, line)

(***************************************************************************)
(* check::Checker::check_proof                                             *)
(***************************************************************************)
RECURSIVE CheckLines(_, _, _, _)
CheckLines(m, p, i, errors) ==
    IF i > Len(p.lines) THEN errors
    ELSE
        LET line == p.lines[i]
        IN  IF line.c.r \notin DOMAIN m
            THEN CheckLines(m, p, i + 1, Append(errors, <<line.n, "NoSuchRule">>))
            ELSE LET e == validate(m[line.c.r], p, line)
                 IN  IF e # "Ok"
                     THEN CheckLines(m, p, i + 1, Append(errors, <<line.n, e>>))
                     ELSE CheckLines(m, p, i + 1, errors)

\* A check_proof that returns at the first failing line.
check_proof_first_error(m, p) ==
    LET errors == CheckLines(m, p, 1, <<>>)
    IN  IF errors # <<>> THEN [tag |-> "Err", errors |-> <<Head(errors)>>]
        ELSE [tag |-> "Ok", errors |-> <<>>]

\* A check_proof that skips the lines whose rule is not registered.
check_proof_skip_unknown(m, p) ==
    LET errors == SelectSeq(CheckLines(m, p, 1, <<>>),
                            LAMBDA e : e[2] # "NoSuchRule")
    IN  IF errors # <<>> THEN [tag |-> "Err", errors |-> errors]
        ELSE [tag |-> "Ok", errors |-> <<>>]

check_proof(m, p) ==
    LET errors == CheckLines(m, p, 1, <<>>)
    IN  IF errors # <<>> THEN [tag |-> "Err", errors |-> errors]
        ELSE [tag |-> "Ok", errors |-> <<>>]

(***************************************************************************)
(* The rows a driver may hand to Proof::parse: (depth, sentence, citation) *)
(* with the sentence and the citation as their parsers return them.        *)
(***************************************************************************)
Depths == 0..MaxDepth

\* A row whose sentence and citation both parse.
Row(d, s, r, l) == <<d, Ok(s), Ok(Citation(r, l))>>

\* The ranges Citation::parse can return (start < end) over 0..k.
Ranges(k) == {ln \in {Many(s, e) : s \in 0..k, e \in 0..k} : ln[2] < ln[3]}

\* Rows for line k of a propositional proof: premises at every depth,
\* reiterations at the outermost and the deepest depth citing any line
\* number up to k (k itself is the citing line, and the depth may rise by
\* more than one), conditional introductions at the outermost depth
\* citing any range up to k, and citations whose count, kind or rule is
\* wrong (RT is not a TFL_BASIC rule).
ScopeRows(k) ==
    LET A == Atomic("A")
    IN  {Row(d, A, "PR", <<>>) : d \in Depths}
        \cup {Row(d, A, "R", <<One(n)>>) : d \in {0, MaxDepth}, n \in 0..k}
        \cup {Row(0, Imp(A, A), "->I", <<ln>>) : ln \in Ranges(k)}
        \cup {Row(0, A, "PR", <<One(k)>>),
              Row(0, A, "R", <<Many(k, k + 1)>>),
              Row(0, A, "RT", <<One(k)>>)}

\* Rows for line k of a modal proof, after the proofs of the tests
\* necessity_elim, rule_t, rule_four, rule_five and complex_modal: the
\* premises []A and ~[]A, the [] signal opening a subproof at every depth,
\* []E at every depth, RT inside the subproof of its test, R4 and R5 at
\* the deepest depth, and vI citing the line before it.
ModalRows(k) ==
    LET A == Atomic("A")
        B == Atomic("B")
    IN  {Row(0, Nec(A), "PR", <<>>), Row(0, Neg(Nec(A)), "PR", <<>>)}
        \cup {Row(d, Signal(NEC), "PR", <<>>) : d \in 1..MaxDepth}
        \cup {Row(d, A, "[]E", <<One(1)>>) : d \in Depths}
        \cup {Row(1, Nec(A), "RT", <<One(1)>>)}
        \cup {Row(MaxDepth, Nec(A), "R4", <<One(1)>>),
              Row(MaxDepth, Neg(Nec(A)), "R5", <<One(1)>>)}
        \cup {Row(1, Dis(A, B), "vI", <<One(k - 1)>>)}

\* Rows for a proof checked while rulesets come and go.
ToggleRows(k) ==
    LET A == Atomic("A")
    IN  {Row(0, Nec(A), "PR", <<>>),
         Row(0, A, "?", <<>>),
         Row(0, Nec(A), "R", <<One(1)>>),
         Row(0, A, "RT", <<One(1)>>),
         Row(0, A, "R", <<One(k)>>)}

(***************************************************************************)
(* The state machine.                                                      *)
(***************************************************************************)
NoResult == [tag |-> "None", errors |-> <<>>]

\* Checker::new(), then add_ruleset for each ruleset of `installed` (a
\* sequence of indices into ALL_RULESETS), as the tests and the fuzz
\* harness set a checker up; no proof rows yet.
RECURSIVE Installed(_, _, _)
Installed(m, installed, i) ==
    IF i > Len(installed) THEN m
    ELSE Installed(add_ruleset(m, ALL_RULESETS[installed[i]]), installed, i + 1)

InitWith(installed) ==
    /\ rules = Installed(Checker_new, installed, 1)
    /\ lastCall = [i \in 1..Len(ALL_RULESETS) |->
                     IF \E j \in 1..Len(installed) : installed[j] = i
                     THEN "add" ELSE "none"]
    /\ rows = <<>>
    /\ proof = Proof_parse(<<>>)
    /\ result = NoResult
    /\ text = <<>>
    /\ parsed = NoResult

\* Checker::add_ruleset(ALL_RULESETS[i])
AddRuleset(i) ==
    /\ rules' = add_ruleset(rules, ALL_RULESETS[i])
    /\ lastCall' = [lastCall EXCEPT
                        ![i] = IF @ \in {"del", "re-add"} THEN "re-add" ELSE "add"]
    /\ result' = NoResult
    /\ UNCHANGED <<rows, proof, text, parsed>>

\* Checker::del_ruleset(ALL_RULESETS[i])
DelRuleset(i) ==
    /\ rules' = del_ruleset(rules, ALL_RULESETS[i])
    /\ lastCall' = [lastCall EXCEPT ![i] = "del"]
    /\ result' = NoResult
    /\ UNCHANGED <<rows, proof, text, parsed>>

\* The driver adds a row and calls Proof::parse on all of its rows.
ParseProof(row) ==
    /\ rows' = Append(rows, row)
    /\ proof' = Proof_parse(rows')
    /\ result' = NoResult
    /\ UNCHANGED <<rules, lastCall, text, parsed>>

\* Checker::check_proof on a proof that parsed.
CheckProof ==
    /\ proof.tag = "Ok"
    /\ result.tag = "None"
    /\ result' = check_proof(rules, proof)
    /\ UNCHANGED <<rules, lastCall, rows, proof, text, parsed>>

\* Propositional proofs under TFL_BASIC.
Init == InitWith(<<1>>)

Next ==
    \/ \E row \in ScopeRows(Len(rows) + 1) : Len(rows) < MaxLines /\ ParseProof(row)
    \/ CheckProof

Spec == Init /\ [][Next]_vars

\* Modal proofs under all six rulesets.
InitModal == InitWith(<<1, 2, 3, 4, 5, 6>>)

NextModal ==
    \/ \E row \in ModalRows(Len(rows) + 1) :
            Len(rows) < MaxModalLines /\ ParseProof(row)
    \/ CheckProof

SpecModal == InitModal /\ [][NextModal]_vars

\* The registry alone, over the six rulesets.
InitRegistry == InitWith(<<>>)

NextRegistry ==
    \/ \E i \in 1..Len(ALL_RULESETS) : AddRuleset(i)
    \/ \E i \in 1..Len(ALL_RULESETS) : DelRuleset(i)

SpecRegistry == InitRegistry /\ [][NextRegistry]_vars

\* Proofs checked while TFL_BASIC and SYSTEM_T are added and removed.
InitToggle == InitWith(<<>>)

NextToggle ==
    \/ \E i \in {1, 4} : AddRuleset(i)
    \/ \E i \in {1, 4} : DelRuleset(i)
    \/ \E row \in ToggleRows(Len(rows) + 1) : Len(rows) < MaxLines /\ ParseProof(row)
    \/ CheckProof

SpecToggle == InitToggle /\ [][NextToggle]_vars

(***************************************************************************)
(* Properties.                                                             *)
(***************************************************************************)
\* check_proof has returned for the current registry and proof.
Checked == result.tag # "None"

Accepted == result.tag = "Ok"

LineNos == 1..Len(proof.lines)

\* The errors check_proof returned for line k, and the verdict of line k.
ErrorsAt(k) ==
    {result.errors[i][2] :
        i \in {j \in 1..Len(result.errors) : result.errors[j][1] = k}}

Verdict(k) == IF ErrorsAt(k) = {} THEN "Ok" ELSE CHOOSE e \in ErrorsAt(k) : TRUE

RuleId(k) == proof.lines[k].c.r

Cited(k) == proof.lines[k].c.l

DepthOf(k) == proof.lines[k].d

IsNecPremise(k) == proof.lines[k].s = <<"Signal", "[]">> /\ RuleId(k) = "PR"

\* The errors of the checks that precede the strictness check.
StructuralErrors == {"BadLineCount", "BadLineType", "BadLine", "BadRange", "Unavailable"}

\* A cited line or range of line k lies strictly before k.
CitedBefore(k, ln) ==
    IF ln[1] = "One" THEN 1 <= ln[2] /\ ln[2] < k
    ELSE 1 <= ln[2] /\ ln[2] < ln[3] /\ ln[3] < k

\* The number and the kinds of the arguments each rule identifier takes.
ArgKinds(id) ==
    CASE id \in {"PR", "?"} -> <<>>
      [] id \in {"R", "^E", "vI", "X", "DNE", "DeM", "DEM", "[]E", "Def<>", "MC",
                 "RT", "R4", "R5"} -> <<"One">>
      [] id \in {"^I", "->E", "<->E", "~E", "DS", "MT"} -> <<"One", "One">>
      [] id = "vE" -> <<"One", "Many", "Many">>
      [] id \in {"->I", "~I", "IP", "[]I"} -> <<"Many">>
      [] id \in {"<->I", "LEM"} -> <<"Many", "Many">>

WellShaped(k) ==
    /\ RuleId(k) \in DOMAIN rules
    /\ Len(Cited(k)) = Len(ArgKinds(RuleId(k)))
    /\ \A i \in 1..Len(Cited(k)) : Cited(k)[i][1] = ArgKinds(RuleId(k))[i]

\* C1 as stated: in an accepted proof every cited line or range of line k
\* lies strictly before k, and a citation that does not makes line k fail
\* with BadLine.
C1_Original ==
    /\ Accepted =>
          \A k \in LineNos : \A i \in 1..Len(Cited(k)) : CitedBefore(k, Cited(k)[i])
    /\ Checked =>
          \A k \in LineNos :
              (\E i \in 1..Len(Cited(k)) : ~CitedBefore(k, Cited(k)[i]))
                  => Verdict(k) = "BadLine"

\* C1 as amended: in an accepted proof every cited line or range of line k
\* lies strictly before k; a citation that does not makes line k fail, and
\* with BadLine when the rule is registered and takes arguments of that
\* number and those kinds.
C1_CitedBefore ==
    /\ Accepted =>
          \A k \in LineNos : \A i \in 1..Len(Cited(k)) : CitedBefore(k, Cited(k)[i])
    /\ Checked =>
          \A k \in LineNos :
              (\E i \in 1..Len(Cited(k)) : ~CitedBefore(k, Cited(k)[i]))
                  => /\ Verdict(k) # "Ok"
                     /\ WellShaped(k) => Verdict(k) = "BadLine"

\* A checked proof with a well-shaped line that cites itself or a later
\* line and fails with BadLine, and an earlier line it may not cite: line 0.
C1_Witness ==
    /\ Checked
    /\ \E k \in LineNos :
          /\ WellShaped(k)
          /\ \E i \in 1..Len(Cited(k)) : Cited(k)[i][1] = "One" /\ Cited(k)[i][2] >= k
          /\ Verdict(k) = "BadLine"
    /\ \E k \in LineNos :
          /\ WellShaped(k)
          /\ \E i \in 1..Len(Cited(k)) : Cited(k)[i][1] = "Many" /\ Cited(k)[i][2] < 1
          /\ Verdict(k) = "BadLine"

\* C2: in an accepted proof no line k cites a single line n whose subproof
\* has been exited, i.e. there is no line m in n+1..k shallower than line n.
C2_NoExitedCitation ==
    Accepted =>
        \A k \in LineNos : \A i \in 1..Len(Cited(k)) :
            Cited(k)[i][1] = "One" =>
                LET n == Cited(k)[i][2]
                IN  ~ \E m \in (n + 1)..k : DepthOf(m) < DepthOf(n)

\* The verdict check_proof owes line k: NoSuchRule for an unregistered
\* rule, else what validate returns.
Owed(k) ==
    IF RuleId(k) \notin DOMAIN rules THEN "NoSuchRule"
    ELSE validate(rules[RuleId(k)], proof, proof.lines[k])

\* C3: check_proof returns one entry (k, error) for each failing line k and
\* no other, in increasing order of k, and Ok exactly when no line fails.
C3_EveryLineValidated ==
    Checked =>
        LET failing == {k \in LineNos : Owed(k) # "Ok"}
            errs == result.errors
        IN  /\ \A i \in 1..Len(errs) :
                  errs[i][1] \in failing /\ errs[i][2] = Owed(errs[i][1])
            /\ \A k \in failing :
                  Cardinality({i \in 1..Len(errs) : errs[i][1] = k}) = 1
            /\ \A i \in 1..Len(errs) : \A j \in 1..Len(errs) :
                  i < j => errs[i][1] < errs[j][1]
            /\ Accepted <=> failing = {}

\* Two lines fail, and a line after the first failing one is accepted.
C3_Witness ==
    /\ Checked
    /\ Len(result.errors) >= 2
    /\ \E k \in LineNos : k > result.errors[1][1] /\ Verdict(k) = "Ok"

\* The identifiers of ruleset i.
IdsOf(i) == {ALL_RULESETS[i][j][1] : j \in 1..Len(ALL_RULESETS[i])}

MostRecentlyAdded(i) == lastCall[i] \in {"add", "re-add"}

\* C4: the registry holds PR and ? for the premise rule, and besides them
\* exactly the identifiers of the rulesets whose most recent call was
\* add_ruleset, each for its rule object.
C4_Registry ==
    /\ DOMAIN rules =
          {"PR", "?"} \cup
          UNION {IdsOf(i) : i \in {j \in 1..Len(ALL_RULESETS) : MostRecentlyAdded(j)}}
    /\ rules["PR"] = "Premise"
    /\ rules["?"] = "Premise"
    /\ \A i \in 1..Len(ALL_RULESETS) : \A j \in 1..Len(ALL_RULESETS[i]) :
          MostRecentlyAdded(i) => rules[ALL_RULESETS[i][j][1]] = ALL_RULESETS[i][j][2]

\* A ruleset added, one removed, one added again and one never touched.
C4_Witness ==
    /\ lastCall[1] = "add"
    /\ lastCall[2] = "del"
    /\ lastCall[3] = "re-add"
    /\ lastCall[4] = "none"

\* C5: check_proof reports NoSuchRule for exactly the lines whose rule
\* identifier is not registered, and nothing else for such a line; so a line
\* of a ruleset's rule is reported NoSuchRule exactly while the most recent
\* call for that ruleset is not add_ruleset.
C5_NoSuchRule ==
    Checked =>
        \A k \in LineNos :
            /\ ("NoSuchRule" \in ErrorsAt(k)) <=> (RuleId(k) \notin DOMAIN rules)
            /\ RuleId(k) \notin DOMAIN rules =>
                  /\ ErrorsAt(k) = {"NoSuchRule"}
                  /\ Cardinality({i \in 1..Len(result.errors) :
                                      result.errors[i][1] = k}) = 1
            /\ \A i \in 1..Len(ALL_RULESETS) :
                  RuleId(k) \in IdsOf(i) =>
                      (Verdict(k) = "NoSuchRule" <=> ~MostRecentlyAdded(i))

\* A proof whose RT line is accepted after SYSTEM_T was removed and added
\* again, while its R line is reported NoSuchRule after TFL_BASIC was removed.
C5_Witness ==
    /\ Checked
    /\ lastCall[4] = "re-add"
    /\ lastCall[1] = "del"
    /\ \E k \in LineNos : RuleId(k) = "RT" /\ Verdict(k) = "Ok"
    /\ \E k \in LineNos : RuleId(k) = "R" /\ Verdict(k) = "NoSuchRule"

\* The rule identifiers whose rules are usable only in a strict subproof.
StrictOnlyIds == {"[]E", "R4", "R5"}

\* The identifiers of the six rulesets whose rules are not strict-only.
RelaxedIds ==
    UNION {IdsOf(i) : i \in 1..Len(ALL_RULESETS)} \ StrictOnlyIds

\* C6: a line of a strict-only rule whose strict zone bit is false is
\* rejected, with StrictOutside unless an earlier structural check fails;
\* so in an accepted proof every such line is inside a strict zone.
C6_StrictOutside ==
    Checked =>
        \A k \in LineNos :
            (RuleId(k) \in StrictOnlyIds /\ RuleId(k) \in DOMAIN rules) =>
                /\ ~proof.strict_zones[k] =>
                      Verdict(k) \in StructuralErrors \cup {"StrictOutside"}
                /\ Accepted => proof.strict_zones[k]

\* A []E line outside every strict zone that cites an accessible line is
\* rejected with StrictOutside, while another proof's R4 line is accepted.
C6_Witness ==
    /\ Checked
    /\ \E k \in LineNos :
          /\ RuleId(k) = "[]E"
          /\ ~proof.strict_zones[k]
          /\ Verdict(k) = "StrictOutside"

\* In an accepted proof a strict-only line sits inside a strict zone.
C6_WitnessAccepted ==
    /\ Accepted
    /\ \E k \in LineNos : RuleId(k) = "R4" /\ proof.strict_zones[k]

SameStrictSubproof(n, k) ==
    /\ proof.strict_zones[n]
    /\ proof.strict_zones[k]
    /\ \A m \in (n + 1)..k : DepthOf(m) >= DepthOf(n) /\ ~IsNecPremise(m)

\* C8: with TFL_BASIC and SYSTEM_K installed, a line inside a strict
\* subproof that correctly applies vI, ->E, ~E, ->I or ~I to accessible
\* lines of that same strict subproof validates.
C8_PropositionalInsideStrict ==
    Checked =>
        \A k \in LineNos :
            (/\ RuleId(k) \in {"vI", "->E", "~E", "->I", "~I"}
             /\ RuleId(k) \in DOMAIN rules
             /\ WellShaped(k)
             /\ \A i \in 1..Len(Cited(k)) :
                    /\ CitedBefore(k, Cited(k)[i])
                    /\ SameStrictSubproof(Cited(k)[i][2], k)
             /\ is_right(rules[RuleId(k)], proof, proof.lines[k]) = "Ok")
                => Verdict(k) = "Ok"

\* C9: with SYSTEM_T installed, an RT line inside a strict subproof that
\* cites a line before the [] premise opening that subproof fails with
\* Unavailable; the proof (0,[]A,PR), (1,[],PR), (1,[]A,"RT 1") yields
\* (3, Unavailable).
C9_RtUnavailable ==
    Checked =>
        \A k \in LineNos :
            (/\ RuleId(k) = "RT"
             /\ RuleId(k) \in DOMAIN rules
             /\ Len(Cited(k)) = 1
             /\ Cited(k)[1][1] = "One"
             /\ CitedBefore(k, Cited(k)[1])
             /\ proof.strict_zones[k]
             /\ \E m \in (Cited(k)[1][2] + 1)..(k - 1) :
                    /\ IsNecPremise(m)
                    /\ DepthOf(m) > DepthOf(Cited(k)[1][2])
                    /\ \A j \in (m + 1)..k : DepthOf(j) >= DepthOf(m))
                => Verdict(k) = "Unavailable"

\* C10: a []E, R4 or R5 line citing a single line n fails with BadUsage
\* when two [] premises at increasing depth, both deeper than line n, lie
\* between n and the citing line and no line after n up to the citing line
\* is shallower than the line before it.
C10_NestedStrict ==
    Checked =>
        \A k \in LineNos :
            (/\ RuleId(k) \in StrictOnlyIds
             /\ RuleId(k) \in DOMAIN rules
             /\ Len(Cited(k)) = 1
             /\ Cited(k)[1][1] = "One"
             /\ CitedBefore(k, Cited(k)[1])
             /\ LET n == Cited(k)[1][2]
                IN  /\ \E m1 \in (n + 1)..(k - 1) : \E m2 \in (m1 + 1)..(k - 1) :
                           /\ IsNecPremise(m1)
                           /\ IsNecPremise(m2)
                           /\ DepthOf(n) < DepthOf(m1)
                           /\ DepthOf(m1) < DepthOf(m2)
                    /\ \A j \in (n + 1)..k : DepthOf(j) >= DepthOf(j - 1))
                => Verdict(k) = "BadUsage"

\* The proofs of the tests: a []E, an R4 and an R5 line each rejected with
\* BadUsage behind two nested [] premises, its sentence matching the cited one.
C10_Witness ==
    /\ Checked
    /\ Len(proof.lines) = 4
    /\ IsNecPremise(2) /\ DepthOf(2) = 1
    /\ IsNecPremise(3) /\ DepthOf(3) = 2
    /\ DepthOf(1) = 0 /\ DepthOf(4) = 2
    /\ Cited(4) = <<<<"One", 1>>>>
    /\ \/ RuleId(4) = "[]E" /\ proof.lines[1].s = <<"Nec", proof.lines[4].s>>
       \/ RuleId(4) \in {"R4", "R5"} /\ proof.lines[1].s = proof.lines[4].s
    /\ result.errors = <<<<4, "BadUsage">>>>

(***************************************************************************)
(* Necessity elimination, after tests::necessity_intr and necessity_elim.  *)
(***************************************************************************)
\* Rows for line k: the premises []A, []B and A, the [] signal opening a
\* strict subproof, an ordinary premise inside it, and []E lines for A
\* citing line 1 or line 2 from inside the strict subproof.
NecRows(k) ==
    LET A == Atomic("A")
        B == Atomic("B")
    IN  {Row(0, Nec(A), "PR", <<>>), Row(0, Nec(B), "PR", <<>>),
         Row(0, A, "PR", <<>>),
         Row(1, Signal(NEC), "PR", <<>>),
         Row(2, A, "PR", <<>>),
         Row(1, A, "[]E", <<One(1)>>), Row(1, A, "[]E", <<One(2)>>),
         Row(2, A, "[]E", <<One(1)>>)}

NextNec ==
    \/ \E row \in NecRows(Len(rows) + 1) :
            Len(rows) < MaxModalLines /\ ParseProof(row)
    \/ CheckProof

SpecNec == InitModal /\ [][NextNec]_vars

\* Line k cites the single earlier line n, no line after n up to k is
\* shallower than the line before it, and exactly one [] premise lies
\* between them.
AcrossOneStrict(n, k) ==
    /\ Cited(k) = <<<<"One", n>>>>
    /\ 1 <= n /\ n < k
    /\ \A j \in (n + 1)..k : DepthOf(j) >= DepthOf(j - 1)
    /\ Cardinality({m \in (n + 1)..(k - 1) : IsNecPremise(m)}) = 1

\* C11: a []E line citing a line across exactly one [] premise, with no
\* depth decrease in between, validates when the cited sentence is Nec(s)
\* and the line's sentence is s, and fails with BadUsage otherwise.
C11_NecessityElim ==
    Checked =>
        \A k \in LineNos : \A n \in LineNos :
            (RuleId(k) = "[]E" /\ AcrossOneStrict(n, k)) =>
                Verdict(k) = IF proof.lines[n].s = <<"Nec", proof.lines[k].s>>
                             THEN "Ok" ELSE "BadUsage"

\* The proof of tests::necessity_elim up to its []E line, accepted.
C11_Witness ==
    /\ Accepted
    /\ \E k \in LineNos : \E n \in LineNos :
          /\ RuleId(k) = "[]E"
          /\ AcrossOneStrict(n, k)
          /\ proof.lines[n].s = <<"Nec", proof.lines[k].s>>

\* A []E line for A citing []B fails with BadUsage.
C11_WitnessDiffers ==
    /\ Checked
    /\ \E k \in LineNos : \E n \in LineNos :
          /\ RuleId(k) = "[]E" /\ AcrossOneStrict(n, k)
          /\ proof.lines[n].s = <<"Nec", <<"Atomic", "B">>>>
          /\ Verdict(k) = "BadUsage"

\* A []E line for A citing A fails with BadUsage.
C11_WitnessNotNec ==
    /\ Checked
    /\ \E k \in LineNos : \E n \in LineNos :
          /\ RuleId(k) = "[]E" /\ AcrossOneStrict(n, k)
          /\ proof.lines[n].s = <<"Atomic", "A">>
          /\ Verdict(k) = "BadUsage"

(***************************************************************************)
(* Strict rules across nested subproofs, after tests::necessity_elim and   *)
(* tests::rule_four.                                                       *)
(***************************************************************************)
\* Rows for line k: the premise []A, [] signals opening strict subproofs at
\* depths 1 and 2, an ordinary premise opening a subproof at depth 3, and
\* []E and R4 lines at depth 2 citing line 1.
NestRows(k) ==
    LET A == Atomic("A")
    IN  {Row(0, Nec(A), "PR", <<>>),
         Row(1, Signal(NEC), "PR", <<>>),
         Row(2, Signal(NEC), "PR", <<>>),
         Row(3, A, "PR", <<>>),
         Row(2, A, "[]E", <<One(1)>>),
         Row(2, Nec(A), "R4", <<One(1)>>)}

NextNest ==
    \/ \E row \in NestRows(Len(rows) + 1) :
            Len(rows) < MaxNestLines /\ ParseProof(row)
    \/ CheckProof

SpecNest == InitModal /\ [][NextNest]_vars

\* The subproof opened by the premise at line m is still open at line k:
\* no line after m up to k is shallower than m or a premise at m's depth.
OpenAt(m, k) ==
    \A j \in (m + 1)..k :
        /\ DepthOf(j) >= DepthOf(m)
        /\ ~(DepthOf(j) = DepthOf(m) /\ RuleId(j) = "PR")

\* The strict subproofs opened after line n and still open at line k.
StrictOpenSince(n, k) ==
    {m \in (n + 1)..(k - 1) : IsNecPremise(m) /\ OpenAt(m, k)}

\* C12: a []E, R4 or R5 line citing line n is accepted only if at most one
\* strict subproof opened after line n is still open at the line.
C12_AtMostOneStrict ==
    Checked =>
        \A k \in LineNos : \A n \in LineNos :
            (/\ RuleId(k) \in StrictOnlyIds
             /\ Cited(k) = <<<<"One", n>>>>
             /\ n < k
             /\ Verdict(k) = "Ok")
                => Cardinality(StrictOpenSince(n, k)) <= 1

\* C13: in a parsed proof strict_zones has one bit per line, and the bit of
\* line k is true exactly when a subproof opened by a [] premise at or
\* before line k is still open at line k.
C13_StrictZones ==
    proof.tag = "Ok" =>
        /\ Len(proof.strict_zones) = Len(proof.lines)
        /\ \A k \in LineNos :
              proof.strict_zones[k] <=>
                  \E m \in 1..k : IsNecPremise(m) /\ OpenAt(m, k)

(***************************************************************************)
(* Premise and placeholder lines, while TFL_BASIC and SYSTEM_K come and go.*)
(***************************************************************************)
\* Rows for line k: PR lines at every depth, "?" lines outside and inside
\* a subproof, the [] signal as a premise, as a placeholder and as a
\* reiteration, and a PR line that cites a line.
PremiseRows(k) ==
    LET A == Atomic("A")
    IN  {Row(d, A, "PR", <<>>) : d \in Depths}
        \cup {Row(d, A, "?", <<>>) : d \in {0, 1}}
        \cup {Row(1, Signal(NEC), "PR", <<>>),
              Row(1, Signal(NEC), "?", <<>>),
              Row(1, Signal(NEC), "R", <<One(1)>>),
              Row(0, A, "PR", <<One(1)>>)}

NextPremise ==
    \/ \E i \in {1, 3} : AddRuleset(i)
    \/ \E i \in {1, 3} : DelRuleset(i)
    \/ \E row \in PremiseRows(Len(rows) + 1) :
            Len(rows) < MaxLines /\ ParseProof(row)
    \/ CheckProof

SpecPremise == InitRegistry /\ [][NextPremise]_vars

\* C14: a line citing "?" with no arguments always validates, at any depth,
\* inside and outside strict zones, as a PR line does.
C14_PlaceholderAsPremise ==
    Checked =>
        \A k \in LineNos :
            (RuleId(k) = "?" /\ Cited(k) = <<>>) => Verdict(k) = "Ok"

\* C15: a PR line with no arguments never produces a check error, and a
\* PR line with arguments fails with BadLineCount.
C15_PremiseAlwaysValid ==
    Checked =>
        \A k \in LineNos :
            RuleId(k) = "PR" =>
                Verdict(k) = IF Cited(k) = <<>> THEN "Ok" ELSE "BadLineCount"

\* PR lines inside a strict zone and outside it, accepted after rulesets
\* were added and removed, next to a PR line with an argument.
C15_Witness ==
    /\ Checked
    /\ lastCall[1] = "del" /\ lastCall[3] = "add"
    /\ \E k \in LineNos :
          RuleId(k) = "PR" /\ Cited(k) = <<>> /\ proof.strict_zones[k]
            /\ ~IsNecPremise(k) /\ Verdict(k) = "Ok"
    /\ \E k \in LineNos :
          RuleId(k) = "PR" /\ Cited(k) # <<>> /\ Verdict(k) = "BadLineCount"

\* Row i parsed to the [] signal.
IsNecRow(i) == rows[i][2] = Ok(Signal(NEC)) /\ rows[i][3].tag = "Ok"

\* C16: in a parsed proof every line whose sentence is the [] signal cites
\* PR or "?", and a [] signal row with any other rule makes Proof::parse
\* fail with (row number, BadNecessity).
C16_NecessityOnPremise ==
    /\ proof.tag = "Ok" =>
          \A k \in LineNos :
              proof.lines[k].s = Signal(NEC) => RuleId(k) \in {"PR", "?"}
    /\ \A i \in 1..Len(rows) :
          (IsNecRow(i) /\ rows[i][3].v.r \notin {"PR", "?"}) =>
              /\ proof.tag = "Err"
              /\ \E j \in 1..Len(proof.error) : proof.error[j] = <<i, "BadNecessity">>

\* A proof whose second row is the [] signal on a reiteration, after a
\* [] premise: parsing fails with (2, BadNecessity) alone.
C16_Witness ==
    /\ Len(rows) >= 2
    /\ IsNecRow(1) /\ rows[1][3].v.r = "PR"
    /\ IsNecRow(2) /\ rows[2][3].v.r = "R"
    /\ proof.error = <<<<2, "BadNecessity">>>>

(***************************************************************************)
(* Negation elimination, after tests::negation_elim.                       *)
(***************************************************************************)
\* Rows for line k: the premises A, ~A and ~~A, and the contradiction
\* drawn from lines 1 and 2 cited in either order.
NegElimRows(k) ==
    LET A == Atomic("A")
    IN  {Row(0, A, "PR", <<>>), Row(0, Neg(A), "PR", <<>>),
         Row(0, Neg(Neg(A)), "PR", <<>>),
         Row(0, Signal(BOT), "~E", <<One(1), One(2)>>),
         Row(0, Signal(BOT), "~E", <<One(2), One(1)>>)}

NextNegElim ==
    \/ \E row \in NegElimRows(Len(rows) + 1) :
            Len(rows) < MaxLines /\ ParseProof(row)
    \/ CheckProof

SpecNegElim == Init /\ [][NextNegElim]_vars

\* C17: a ~E line whose sentence is the contradiction signal and whose two
\* cited sentences are p and Neg(p), in either citation order, validates.
C17_NegationElimEitherOrder ==
    Checked =>
        \A k \in LineNos : \A a \in LineNos : \A b \in LineNos :
            (/\ RuleId(k) = "~E"
             /\ Cited(k) = <<<<"One", a>>, <<"One", b>>>>
             /\ a < k /\ b < k
             /\ proof.lines[k].s = Signal(BOT)
             /\ \/ proof.lines[a].s = Neg(proof.lines[b].s)
                \/ proof.lines[b].s = Neg(proof.lines[a].s))
                => Verdict(k) = "Ok"

(***************************************************************************)
(* An input field of the editor: every change of its content is followed   *)
(* by normalize_ops (ui/proof.rs, ui/popups.rs).                           *)
(***************************************************************************)
\* The characters typed into the field: the pieces of the aliases <->, ->,
\* <>, - and XX.
OpsChars == {"<", "-", ">", "X"}

\* The strings of one to n characters of `chars`.
Strings(chars, n) == UNION {[1..k -> chars] : k \in 1..n}

\* The handler of a changed field: the field holds normalize_ops of its
\* new content.
FieldChanged(content) ==
    /\ text' = normalize_ops(content)
    /\ parsed' = [tag |-> "normalize_ops", input |-> content, v |-> text']
    /\ UNCHANGED <<rules, lastCall, rows, proof, result>>

\* The user pastes a string into the empty field.
PasteOps(s) == text = <<>> /\ FieldChanged(s)

\* The user types one more character at the end of the field.
TypeOps(c) == Len(text) < MaxText /\ FieldChanged(Append(text, c))

NextNormalize ==
    \/ \E s \in Strings(OpsChars, MaxText) : PasteOps(s)
    \/ \E c \in OpsChars : TypeOps(c)

SpecNormalize == InitRegistry /\ [][NextNormalize]_vars

\* C18: normalize_ops applied to its own output changes nothing, and the
\* alias <-> becomes the biconditional symbol, never < followed by the
\* conditional symbol.
C18_NormalizeIdempotent ==
    parsed.tag = "normalize_ops" =>
        /\ parsed.v = normalize_ops(parsed.input)
        /\ normalize_ops(parsed.v) = parsed.v
        /\ \A i \in 1..(Len(parsed.input) - 2) :
              SubSeq(parsed.input, i, i + 2) = <<"<", "-", ">">> =>
                  \E j \in 1..Len(parsed.v) : parsed.v[j] = BIC
        /\ \A j \in 1..(Len(parsed.v) - 1) :
              ~(parsed.v[j] = "<" /\ parsed.v[j + 1] = IMP)

\* The field was given <<->, which holds both <-> and ->, and shows
\* < and the biconditional symbol.
C18_Witness ==
    /\ parsed.tag = "normalize_ops"
    /\ parsed.input = <<"<", "<", "-", ">">>
    /\ parsed.v = <<"<", BIC>>

(***************************************************************************)
(* Sentence::parse on the strings a driver hands it.                       *)
(***************************************************************************)
\* The characters of the sentence strings: a letter, a binary alias, and
\* parentheses and brackets ("[" directly before "]" is the necessity alias).
SentenceChars == {"A", "^", "(", ")", "[", "]"}

\* The driver extends the string it will hand to the parser.
ExtendSentence(c) ==
    /\ Len(text) < MaxSentence
    /\ text' = Append(text, c)
    /\ parsed' = NoResult
    /\ UNCHANGED <<rules, lastCall, rows, proof, result>>

\* Sentence::parse(text)
ParseSentence ==
    /\ parsed.tag = "None"
    /\ parsed' = [tag |-> "Sentence", input |-> text, v |-> Sentence_parse(text)]
    /\ UNCHANGED <<rules, lastCall, rows, proof, result, text>>

NextSentence ==
    \/ \E c \in SentenceChars : ExtendSentence(c)
    \/ ParseSentence

SpecSentence == InitRegistry /\ [][NextSentence]_vars

\* s inside one more pair of parentheses, brackets or braces.
Enclosed(s) ==
    {<<"(">> \o s \o <<")">>, <<"[">> \o s \o <<"]">>, <<"{">> \o s \o <<"}">>}

\* C19: a string that Sentence::parse accepts parses to the same sentence
\* inside one or two more enclosing pairs of (, [ or {.
C19_OuterParentheses ==
    (parsed.tag = "Sentence" /\ parsed.v.tag = "Ok") =>
        \A w \in Enclosed(parsed.input) \cup UNION {Enclosed(e) : e \in Enclosed(parsed.input)} :
            LET r == Sentence_parse(w)
            IN  r.tag = "Ok" /\ r.v = parsed.v.v

\* The parser accepted A^A, a string that is not itself enclosed.
C19_Witness ==
    /\ parsed.tag = "Sentence"
    /\ parsed.input = <<"A", "^", "A">>
    /\ parsed.v = Ok(Con(Atomic("A"), Atomic("A")))
    /\ Sentence_parse(<<"(", "A", "^", "A", ")">>) = parsed.v

(***************************************************************************)
(* parse::citation, over sequences of characters                           *)
(***************************************************************************)
\* \d of NUM_REGEX, the ASCII digits, in the order of their values.
Digits == <<"0", "1", "2", "3", "4", "5", "6", "7", "8", "9">>

IsDigit(c) == \E k \in 1..Len(Digits) : Digits[k] = c

\* NUM_REGEX.find_iter: the maximal runs of digits of i, left to right.
RECURSIVE find_iter(_, _, _, _)
find_iter(i, n, run, out) ==
    IF n > Len(i) THEN (IF run = <<>> THEN out ELSE Append(out, run))
    ELSE IF IsDigit(i[n]) THEN find_iter(i, n + 1, Append(run, i[n]), out)
    ELSE find_iter(i, n + 1, <<>>, IF run = <<>> THEN out ELSE Append(out, run))

\* The number a run of digits denotes (runs stay below 10 digits here).
RECURSIVE Value(_)
Value(run) ==
    IF run = <<>> THEN 0
    ELSE 10 * Value(SubSeq(run, 1, Len(run) - 1))
            + (CHOOSE k \in 0..9 : Digits[k + 1] = run[Len(run)])

\* u16::MAX
U16_MAX == 65535

\* extract: v.parse::<u16>()
extract(run) ==
    IF Value(run) > U16_MAX THEN Err("OversizeValue") ELSE Ok(Value(run))

\* A comparison that lets a range end at its start.
EndBeforeStart(s, e) == e < s

\* if e <= s
EndNotAfterStart(s, e) == e <= s

\* LineNumber::parse
LineNumber_parse(i) ==
    LET matches == find_iter(trim(i), 1, <<>>, <<>>)
    IN  IF Len(matches) = 0 \/ Len(matches) >= 3 THEN Err("BadLineNumber")
        ELSE IF Len(matches) = 1
        THEN LET v == extract(matches[1])
             IN  IF v.tag = "Err" THEN v ELSE Ok(One(v.v))
        ELSE LET s == extract(matches[1])
                 e == extract(matches[2])
             IN  IF s.tag = "Err" THEN s
                 ELSE IF e.tag = "Err" THEN e
                 ELSE IF EndNotAfterStart(s.v, e.v) THEN Err("BadLineRange")
                 ELSE Ok(Many(s.v, e.v))

\* The characters SEP_REGEX matches.
Separators == {";", ","} \cup Whitespace

\* SEP_REGEX.replace_all(i, ","): every run of separators becomes one comma.
RECURSIVE sep_replace(_, _, _, _)
sep_replace(i, n, inRun, out) ==
    IF n > Len(i) THEN out
    ELSE IF i[n] \in Separators
         THEN sep_replace(i, n + 1, TRUE, IF inRun THEN out ELSE Append(out, ","))
         ELSE sep_replace(i, n + 1, FALSE, Append(out, i[n]))

\* str::split(','): the pieces between commas, empty pieces included.
RECURSIVE split(_, _, _, _)
split(i, n, piece, out) ==
    IF n > Len(i) THEN Append(out, piece)
    ELSE IF i[n] = "," THEN split(i, n + 1, <<>>, Append(out, piece))
    ELSE split(i, n + 1, Append(piece, i[n]), out)

\* pieces.map(LineNumber::parse).collect::<Result<_, _>>(): the first error,
\* or every line number.
RECURSIVE collect(_, _, _)
collect(pieces, n, out) ==
    IF n > Len(pieces) THEN Ok(out)
    ELSE LET ln == LineNumber_parse(pieces[n])
         IN  IF ln.tag = "Err" THEN ln ELSE collect(pieces, n + 1, Append(out, ln.v))

\* The pieces Citation::parse splits a non-blank i into.
Pieces(i) == split(trim(sep_replace(normalize_ops(trim(i)), 1, FALSE, <<>>)), 1, <<>>, <<>>)

\* Citation::parse
Citation_parse(i) ==
    IF trim(i) = <<>> THEN Err("EmptyCitation")
    ELSE LET pieces == Pieces(i)
             rule == trim(pieces[1])
         IN  IF Len(pieces) = 1 THEN Ok(Citation(rule, <<>>))
             ELSE LET lines == collect(Tail(pieces), 1, <<>>)
                  IN  IF lines.tag = "Err" THEN lines
                      ELSE Ok(Citation(rule, lines.v))

\* The characters of the citation strings after the rule: a digit, the dash
\* of a range and a separator.
CitationChars == {"9", "-", " "}

\* The driver starts the citation string with a rule identifier.
StartCitation ==
    /\ text = <<>>
    /\ text' = <<"R">>
    /\ parsed' = NoResult
    /\ UNCHANGED <<rules, lastCall, rows, proof, result>>

\* The driver extends the citation string.
ExtendCitation(c) ==
    /\ text # <<>>
    /\ Len(text) < MaxCitation
    /\ text' = Append(text, c)
    /\ parsed' = NoResult
    /\ UNCHANGED <<rules, lastCall, rows, proof, result>>

\* Citation::parse(text)
ParseCitation ==
    /\ parsed.tag = "None"
    /\ parsed' = [tag |-> "Citation", input |-> text, v |-> Citation_parse(text)]
    /\ UNCHANGED <<rules, lastCall, rows, proof, result, text>>

NextCitation ==
    \/ StartCitation
    \/ \E c \in CitationChars : ExtendCitation(c)
    \/ ParseCitation

SpecCitation == InitRegistry /\ [][NextCitation]_vars

\* The argument pieces of the parsed string.
Arguments == IF trim(parsed.input) = <<>> THEN <<>> ELSE Tail(Pieces(parsed.input))

\* Argument piece k holds exactly two numbers, the second at or before the first.
BackwardRange(k) ==
    LET m == find_iter(trim(Arguments[k]), 1, <<>>, <<>>)
    IN  Len(m) = 2 /\ Value(m[2]) <= Value(m[1])

\* Every range of an accepted citation ends after its start.
RangesAscend ==
    parsed.v.tag = "Ok" =>
        \A n \in 1..Len(parsed.v.v.l) :
            LET ln == parsed.v.v.l[n]
            IN  ln[1] = "Many" => range_start(ln) < range_end(ln)

RuleChars == {",", "R", "1"}

\* The driver extends a citation string that may begin with a separator.
ExtendRuleText(c) ==
    /\ Len(text) < MaxRuleText
    /\ text' = Append(text, c)
    /\ parsed' = NoResult
    /\ UNCHANGED <<rules, lastCall, rows, proof, result>>

NextRuleText ==
    \/ \E c \in RuleChars : ExtendRuleText(c)
    \/ ParseCitation

SpecRuleText == InitRegistry /\ [][NextRuleText]_vars

\* The parsed string is not blank and nothing precedes its first separator.
NoRuleToken ==
    /\ trim(parsed.input) # <<>>
    /\ trim(Pieces(parsed.input)[1]) = <<>>

\* C21: a non-empty citation without a rule token fails with MissingRule,
\* and no parsed Citation has the empty string as its rule.
C21_MissingRule ==
    parsed.tag = "Citation" =>
        /\ NoRuleToken => parsed.v = Err("MissingRule")
        /\ parsed.v.tag = "Ok" => parsed.v.v.r # <<>>

(***************************************************************************)
(* Proofs whose lines fail several checks of validate at once.             *)
(***************************************************************************)
\* Rows for line k: premises and the [] signal, reiterations citing any line
\* up to k or nothing or a range, a reiteration of another sentence, []E in
\* and outside a strict subproof, and ->I citing a range or a single line.
OrderRows(k) ==
    LET A == Atomic("A")
        B == Atomic("B")
    IN  {Row(d, A, "PR", <<>>) : d \in {0, 1}}
        \cup {Row(1, Signal(NEC), "PR", <<>>)}
        \cup {Row(1, A, "R", <<One(n)>>) : n \in 0..k}
        \cup {Row(0, B, "R", <<One(1)>>),
              Row(0, A, "R", <<>>),
              Row(0, A, "R", <<Many(k, k + 1)>>)}
        \cup {Row(d, A, "[]E", <<One(1)>>) : d \in {0, 1}}
        \cup {Row(0, Imp(A, A), "->I", <<ln>>) : ln \in {Many(1, 2), Many(1, k), One(1)}}

NextOrder ==
    \/ \E row \in OrderRows(Len(rows) + 1) :
            Len(rows) < MaxOrderLines /\ ParseProof(row)
    \/ CheckProof

SpecOrder == InitModal /\ [][NextOrder]_vars

\* The error of the first check line k fails, in the order arity, argument
\* kind, bounds, subproof, accessibility, strictness, rule predicate.
FirstFailure(k) ==
    LET line == proof.lines[k]
        rule == rules[RuleId(k)]
    IN  IF Len(Cited(k)) # Len(ArgKinds(RuleId(k))) THEN "BadLineCount"
        ELSE IF \E i \in 1..Len(Cited(k)) : Cited(k)[i][1] # ArgKinds(RuleId(k))[i]
             THEN "BadLineType"
        ELSE IF \E i \in 1..Len(Cited(k)) : ~CitedBefore(k, Cited(k)[i]) THEN "BadLine"
        ELSE IF \E i \in 1..Len(Cited(k)) :
                    Cited(k)[i][1] = "Many" /\ BadSubproof(proof, line, Cited(k)[i])
             THEN "BadRange"
        ELSE IF \E i \in 1..Len(Cited(k)) : NotAvailable(proof, line, Cited(k)[i])
             THEN "Unavailable"
        ELSE IF StrictOutsideZone(rule, proof, line) THEN "StrictOutside"
        ELSE IF RelaxedInsideZone(rule, proof, line) THEN "RelaxedInside"
        ELSE is_right(rule, proof, line)

\* C22: a line whose rule is registered gets the error of the first check it
\* fails, in the order BadLineCount, BadLineType, BadLine, BadRange,
\* Unavailable, StrictOutside, RelaxedInside, BadUsage, and only that error.
C22_ValidateOrder ==
    Checked =>
        \A k \in LineNos :
            RuleId(k) \in DOMAIN rules =>
                /\ Cardinality(ErrorsAt(k)) <= 1
                /\ Verdict(k) = FirstFailure(k)

\* One checked proof holds a line with a wrong argument kind that also cites
\* out of bounds and is reported as BadLineType, and a strict rule used
\* outside a strict subproof whose predicate also fails and is reported as
\* StrictOutside.
C22_Witness ==
    /\ Checked
    /\ \E k \in LineNos :
           /\ Verdict(k) = "BadLineType"
           /\ \E i \in 1..Len(Cited(k)) : ~CitedBefore(k, Cited(k)[i])
    /\ \E k \in LineNos :
           /\ Verdict(k) = "StrictOutside"
           /\ is_right(rules[RuleId(k)], proof, proof.lines[k]) = "BadUsage"

(***************************************************************************)
(* Proofs citing subproofs whose depth may exceed their line numbers.      *)
(***************************************************************************)
\* Rows for line k: premises and reiterations at depths up to 3, and ->I
\* citing the lines 1-2 or 2-3 from depth 0 or 2.
RangeRows(k) ==
    LET A == Atomic("A")
    IN  {Row(d, A, "PR", <<>>) : d \in {0, 1, 3}}
        \cup {Row(d, A, "R", <<One(1)>>) : d \in {1, 3}}
        \cup {Row(d, Imp(A, A), "->I", <<ln>>) : d \in {0, 2}, ln \in {Many(1, 2), Many(2, 3)}}

NextRange ==
    \/ \E row \in RangeRows(Len(rows) + 1) :
            Len(rows) < MaxRangeLines /\ ParseProof(row)
    \/ CheckProof

SpecRange == Init /\ [][NextRange]_vars

\* The range s-e cited by a line violates one of the four conditions: both
\* ends at depth >= 1, both at the same depth, no line of s..e shallower than
\* s, and line e+1 shallower than e or a premise.
RangeIllFormed(s, e) ==
    \/ ~(DepthOf(s) >= 1 /\ DepthOf(e) >= 1)
    \/ DepthOf(s) # DepthOf(e)
    \/ \E n \in s..e : DepthOf(n) < DepthOf(s)
    \/ ~(DepthOf(e + 1) < DepthOf(e) \/ RuleId(e + 1) = "PR")

\* C23: a line that passes the arity, kind and bounds checks fails with
\* BadRange exactly when one of its cited ranges violates one of the four
\* conditions on subproofs.
C23_BadRangeIff ==
    Checked =>
        \A k \in LineNos :
            (WellShaped(k) /\ \A i \in 1..Len(Cited(k)) : CitedBefore(k, Cited(k)[i])) =>
                (Verdict(k) = "BadRange"
                    <=> \E i \in 1..Len(Cited(k)) :
                            /\ Cited(k)[i][1] = "Many"
                            /\ RangeIllFormed(Cited(k)[i][2], Cited(k)[i][3]))

(***************************************************************************)
(* Conjunction introductions over two premises.                            *)
(***************************************************************************)
\* Rows for line k: the premises A and B, and ^I deriving each conjunction
\* of A and B from the lines 1 and 2 in either order.
ConjRows(k) ==
    LET AB == {Atomic("A"), Atomic("B")}
    IN  {Row(0, s, "PR", <<>>) : s \in AB}
        \cup {Row(0, Con(l, r), "^I", c) :
                l \in AB, r \in AB, c \in {<<One(1), One(2)>>, <<One(2), One(1)>>}}

NextConj ==
    \/ \E row \in ConjRows(Len(rows) + 1) : Len(rows) < MaxLines /\ ParseProof(row)
    \/ CheckProof

SpecConj == Init /\ [][NextConj]_vars

\* C24: where validate reaches the predicate of ^I, the line is accepted
\* exactly when its sentence is Con(l, r) and the cited sentences are l and r
\* in either order, and gets BadUsage otherwise.
C24_ConjunctionIntr ==
    Checked =>
        \A k \in LineNos :
            (RuleId(k) = "^I" /\ Verdict(k) \in {"Ok", "BadUsage"}) =>
                LET s == proof.lines[k].s
                    cited1 == proof.lines[Cited(k)[1][2]].s
                    cited2 == proof.lines[Cited(k)[2][2]].s
                IN  Verdict(k) = "Ok" <=>
                        /\ s[1] = "Con"
                        /\ \/ (cited1 = s[2] /\ cited2 = s[3])
                           \/ (cited1 = s[3] /\ cited2 = s[2])

(***************************************************************************)
(* Reiterations into strict subproofs with R4.                             *)
(***************************************************************************)
\* Rows for line k, after tests::rule_four: the premises A and []A, the []
\* signal opening a subproof at depth 1 or 2, and R4 deriving A or []A from
\* line 1 at depth 1 or 2.
R4Rows(k) ==
    LET A == Atomic("A")
    IN  {Row(0, s, "PR", <<>>) : s \in {A, Nec(A)}}
        \cup {Row(d, Signal(NEC), "PR", <<>>) : d \in {1, 2}}
        \cup {Row(d, s, "R4", <<One(1)>>) : d \in {1, 2}, s \in {A, Nec(A)}}

NextR4 ==
    \/ \E row \in R4Rows(Len(rows) + 1) : Len(rows) < MaxReiterLines /\ ParseProof(row)
    \/ CheckProof

SpecR4 == InitModal /\ [][NextR4]_vars

\* C25: where validate reaches the predicate of R4, the line is accepted
\* exactly when the cited sentence equals the line's sentence and the
\* strict-nesting check from the cited line to the citing line passes,
\* whatever the form of the sentence.
C25_RuleFour ==
    Checked =>
        \A k \in LineNos :
            (RuleId(k) = "R4" /\ Verdict(k) \in {"Ok", "BadUsage"}) =>
                (Verdict(k) = "Ok" <=>
                    /\ proof.lines[Cited(k)[1][2]].s = proof.lines[k].s
                    /\ check_strict_nesting(proof, Cited(k)[1][2], k))

\* An R4 line whose sentence is the atomic A was accepted inside a strict
\* subproof.
C25_Witness ==
    /\ Checked
    /\ \E k \in LineNos :
           /\ RuleId(k) = "R4"
           /\ Verdict(k) = "Ok"
           /\ proof.lines[k].s = Atomic("A")
           /\ proof.lines[Cited(k)[1][2]].s = Atomic("A")
           /\ proof.strict_zones[k]

(***************************************************************************)
(* The line numbers validate hands to Proof::line.                         *)
(***************************************************************************)
\* The lookups of the subproof closure for the range r: the two ends, then
\* the lines of the range, then the line after it, as far as the closure
\* gets (a lookup outside the proof is its last).
SubproofLookups(p, line, r) ==
    LET s == range_start(r)
        e == range_end(r)
    IN  IF ~({s, e} \subseteq 1..Proof_len(p)) THEN {s, e}
        ELSE LET sd == Proof_line(p, s).d
                 ed == Proof_line(p, e).d
             IN  IF (sd < 1 \/ ed < 1) \/ (sd # ed) \/ (sd >= line.n) THEN {s, e}
                 ELSE IF \E n \in s..e : Proof_line(p, n).d < sd THEN s..e
                 ELSE (s..e) \cup {e + 1}

\* The lookups of is_right: the cited lines, the ends of the cited ranges,
\* and for the strict rules the lines check_strict_nesting walks.
PredicateLookups(rule, line) ==
    LET cited == cited_lines(line)
    IN  {as_one(cited[i]) : i \in {j \in 1..Len(cited) : Is(cited[j], "One")}}
        \cup UNION {{range_start(cited[i]), range_end(cited[i])} :
                        i \in {j \in 1..Len(cited) : Is(cited[j], "Many")}}
        \cup (IF strict_only(rule) THEN as_one(cited[1])..(line.n - 1) ELSE {})

\* Every line number validate(rule, p, line) hands to Proof::line.
Lookups(rule, p, line) ==
    LET cited == cited_lines(line)
        ranges == {cited[i] : i \in {j \in 1..Len(cited) : Is(cited[j], "Many")}}
        subproofs == UNION {SubproofLookups(p, line, r) : r \in ranges}
        \* the entries of the accessibility vectors the availability scan reads
        indexed == {IF Is(cited[i], "One") THEN as_one(cited[i]) ELSE range_start(cited[i]) :
                        i \in 1..Len(cited)}
    IN  IF \/ Len(line_ord(rule)) # Len(cited)
           \/ KindMismatch(rule, line)
           \/ \E i \in 1..Len(cited) : OutOfBounds(line, cited[i])
        THEN {}
        ELSE IF ~(subproofs \subseteq 1..Proof_len(p)) THEN subproofs
        ELSE IF \E r \in ranges : BadSubproof(p, line, r) THEN subproofs
        ELSE IF ~(indexed \subseteq 1..Proof_len(p))
             THEN subproofs \cup 1..(line.n - 1) \cup indexed
        ELSE IF \/ \E i \in 1..Len(cited) : NotAvailable(p, line, cited[i])
                \/ StrictOutsideZone(rule, p, line)
                \/ RelaxedInsideZone(rule, p, line)
             THEN subproofs \cup 1..(line.n - 1)
        ELSE subproofs \cup 1..(line.n - 1) \cup PredicateLookups(rule, line)

\* C26: for every line of a parsed proof whose rule is registered, every
\* line number validate hands to Proof::line lies in 1..len(proof), and
\* check_proof returns a verdict for the proof.
C26_LookupsInBounds ==
    proof.tag = "Ok" =>
        /\ \A k \in LineNos :
               RuleId(k) \in DOMAIN rules =>
                   Lookups(rules[RuleId(k)], proof, proof.lines[k]) \subseteq LineNos
        /\ Checked => result.tag \in {"Ok", "Err"}

\* A checked proof whose last line cites the range ending just before it and
\* reaches the rule predicate, so validate looked up every line of the proof.
C26_Witness ==
    /\ Checked
    /\ Len(proof.lines) >= 3
    /\ LET k == Len(proof.lines)
       IN  /\ RuleId(k) = "->I"
           /\ Cited(k) = <<Many(1, k - 1)>>
           /\ Verdict(k) \in {"Ok", "BadUsage"}
           /\ Lookups(rules[RuleId(k)], proof, proof.lines[k]) = LineNos

(***************************************************************************)
(* Proofs with sibling subproofs: a premise at the depth of the subproof   *)
(* before it.                                                              *)
(***************************************************************************)
\* Rows for line k: the premises A and B at depth 0 or 1, ->I deriving A -> B
\* from the lines 1-2, and a reiteration of line 1 at depth 0 or 1.
SiblingRows(k) ==
    LET A == Atomic("A")
        B == Atomic("B")
    IN  {Row(d, s, "PR", <<>>) : d \in {0, 1}, s \in {A, B}}
        \cup {Row(0, Imp(A, B), "->I", <<Many(1, 2)>>)}
        \cup {Row(d, A, "R", <<One(1)>>) : d \in {0, 1}}

NextSibling ==
    \/ \E row \in SiblingRows(Len(rows) + 1) : Len(rows) < MaxLines /\ ParseProof(row)
    \/ CheckProof

SpecSibling == Init /\ [][NextSibling]_vars

\* C27: a range s-e cited by an accepted line starts at a PR line and holds
\* no further premise at the depth of line s.
C27_SingleSubproof ==
    Checked =>
        \A k \in LineNos :
            Verdict(k) = "Ok" =>
                \A i \in 1..Len(Cited(k)) :
                    Cited(k)[i][1] = "Many" =>
                        LET s == Cited(k)[i][2]
                            e == Cited(k)[i][3]
                        IN  /\ RuleId(s) = "PR"
                            /\ \A m \in (s + 1)..e :
                                   DepthOf(m) = DepthOf(s) => RuleId(m) # "PR"

\* C28: a line n at depth >= 1 cited by an accepted line k is not followed,
\* before k, by a premise at the depth of line n.
C28_NoSiblingCitation ==
    Checked =>
        \A k \in LineNos :
            Verdict(k) = "Ok" =>
                \A i \in 1..Len(Cited(k)) :
                    (Cited(k)[i][1] = "One" /\ DepthOf(Cited(k)[i][2]) >= 1) =>
                        ~\E m \in (Cited(k)[i][2] + 1)..(k - 1) :
                              RuleId(m) = "PR" /\ DepthOf(m) = DepthOf(Cited(k)[i][2])

\* The verdict check_proof gives line k in the proof parsed from the first
\* k rows alone.
PrefixVerdict(k) ==
    LET res == check_proof(rules, Proof_parse(SubSeq(rows, 1, k)))
        errs == {res.errors[i][2] :
                    i \in {j \in 1..Len(res.errors) : res.errors[j][1] = k}}
    IN  IF errs = {} THEN "Ok" ELSE CHOOSE e \in errs : TRUE

\* C29: the verdict of line k in a checked proof is its verdict in the proof
\* made of the first k rows.
C29_PrefixVerdict ==
    Checked => \A k \in LineNos : Verdict(k) = PrefixVerdict(k)

\* A checked proof in which an accepted line at depth 1 cites the line before
\* it and is followed by a line at depth 0.
C29_Witness ==
    /\ Checked
    /\ Len(proof.lines) = 3
    /\ DepthOf(2) = 1
    /\ Cited(2) = <<One(1)>>
    /\ Verdict(2) = "Ok"
    /\ PrefixVerdict(2) = "Ok"
    /\ DepthOf(3) = 0

\* C30: in an accepted proof every line deeper than the line before it
\* (depth 0 before line 1) is a premise line.
C30_OpenedByPremise ==
    Accepted =>
        \A k \in LineNos :
            DepthOf(k) > (IF k = 1 THEN 0 ELSE DepthOf(k - 1)) =>
                RuleId(k) \in {"PR", "?"}

====
